---- MODULE Spec2Model ----
(***************************************************************************)
(* Model of the Claude Max proxy (rynfar/opencode-claude-max-proxy):       *)
(* the admission queue in front of handleMessages, the non-streaming       *)
(* aggregation loop and the streaming session that remaps upstream SDK     *)
(* events onto the downstream SSE sink.                                    *)
(*                                                                         *)
(* Two revisions of src/proxy/server.ts that sit behind the queue are      *)
(* modelled; the variable ver says which one the process runs:             *)
(*   "A"  src/src/proxy/server.ts        (bare controller.enqueue)         *)
(*   "B"  src/unnamed/part_002, 1-534    (safeEnqueue / streamClosed)      *)
(*                                                                         *)
(* The queue is p-queue's PQueue({concurrency: 1}): add() appends the job  *)
(* and tries to start one; a settled job decrements the pending count and  *)
(* tries to start one.  The sink is a ReadableStream controller: enqueue   *)
(* and close throw "Controller is already closed" once the stream was      *)
(* closed by the session or cancelled by the client.                       *)
(***************************************************************************)
EXTENDS Integers, Sequences, FiniteSets, TLC

\* ------------------------------------------------------------------ bounds
MaxReq == 3
MaxMsgs == 2
MaxEvents == 4
MaxParts == 2
MaxMessages == 2

\* ------------------------------------------------------- program constants
\* new PQueue({ concurrency: 1 })
TwoAtOnce == 1 + 1
Concurrency == 1

Req == 1..MaxReq
Versions == {"A", "B"}
AllVersions == Versions \cup {"C"}
Endpoints == {"/v1/messages", "/messages"}
Indices == {0, 1}
\* event.index is undefined
NoIndex == -1

\* ---------------------------------------------------------- upstream input
\* One SDK message as the event loop reads it: msg is the message type,
\* the other fields are those of message.event the loop looks at.
Ev(t, i, b, d, s, u) ==
  [msg |-> "stream_event", type |-> t, index |-> i, block |-> b,
   delta |-> d, stop |-> s, usage |-> u]

OtherMessage ==
  [msg |-> "assistant", type |-> "none", index |-> NoIndex, block |-> "none",
   delta |-> "none", stop |-> "absent", usage |-> "absent"]

MessageStart == Ev("message_start", NoIndex, "none", "none", "absent", "absent")
MessageStop == Ev("message_stop", NoIndex, "none", "none", "absent", "absent")
BlockStart(i, b) == Ev("content_block_start", i, b, "none", "absent", "absent")
BlockDelta(i, d) == Ev("content_block_delta", i, "none", d, "absent", "absent")
BlockStop(i) == Ev("content_block_stop", i, "none", "none", "absent", "absent")
MessageDelta(s, u) == Ev("message_delta", NoIndex, "none", "none", s, u)

TextDelta(i) == BlockDelta(i, "text_delta")
InputJsonDelta(i) == BlockDelta(i, "input_json_delta")

\* Events the upstream sends between content blocks, and the block starts.
BetweenBlocks ==
  {MessageStart, MessageStop, OtherMessage,
   MessageDelta("tool_use", "absent"), MessageDelta("absent", "tokens")}
    \cup {BlockStart(i, b) : i \in Indices, b \in {"text", "tool_use"}}

\* Events of the block opened by start event b.
InsideBlock(b) ==
  {BlockStop(b.index), OtherMessage,
   IF b.block = "text" THEN TextDelta(b.index) ELSE InputJsonDelta(b.index)}

IsBracket(m) ==
  /\ m.msg = "stream_event"
  /\ m.type \in {"content_block_start", "content_block_stop"}

\* The upstream streams one content block at a time: after a content_block_start
\* come that block's deltas and its stop, and message-level events and further
\* starts come only between blocks.  up is the sequence sent so far.
NextMessages(up) ==
  LET brackets == {i \in 1..Len(up) : IsBracket(up[i])}
      last == CHOOSE i \in brackets : \A j \in brackets : j <= i
  IN IF brackets # {} /\ up[last].type = "content_block_start"
       THEN InsideBlock(up[last])
       ELSE BetweenBlocks

\* The few messages the queue-level specification feeds a session.
FewMessages == {TextDelta(0)}

\* ------------------------------------------------------- the event remapper
\* content_block_start of a tool_use block: its index is remembered.
ForgetToolIndex(skip, ev) == skip
AddToolIndex(skip, ev) ==
  IF ev.index # NoIndex THEN skip \cup {ev.index} ELSE skip

IsToolUseStart(ev) ==
  ev.type = "content_block_start" /\ ev.block = "tool_use"

\* "Skip deltas and stops for tool_use blocks"
SkipsAnyIndexed(skip, ev) == ev.index # NoIndex /\ skip # {}
IsSkipped(skip, ev) == ev.index # NoIndex /\ ev.index \in skip

\* Revision B resets the skip set at message_start; revision A has no reset.
ResetAtMessageStart(v, skip, ev) ==
  IF v = "B" /\ ev.type = "message_start" THEN {} ELSE skip

\* "Override message_delta to always show end_turn"
NoUsageDefault(ev) == [ev EXCEPT !.stop = "end_turn"]
KeepStopReason(ev) ==
  [ev EXCEPT !.usage = IF ev.usage = "absent" THEN "zero" ELSE ev.usage]
Patched(ev) ==
  [ev EXCEPT !.stop = "end_turn",
             !.usage = IF ev.usage = "absent" THEN "zero" ELSE ev.usage]

\* What one stream_event does: the new skip set, whether the event is written
\* and the event as written.
Remap(v, skip, ev) ==
  LET skip1 == ResetAtMessageStart(v, skip, ev) IN
  IF IsToolUseStart(ev)
    THEN [skip |-> AddToolIndex(skip1, ev), forward |-> FALSE, out |-> ev]
  ELSE IF IsSkipped(skip1, ev)
    THEN [skip |-> skip1, forward |-> FALSE, out |-> ev]
  ELSE IF ev.type = "message_delta"
    THEN [skip |-> skip1, forward |-> TRUE, out |-> Patched(ev)]
  ELSE [skip |-> skip1, forward |-> TRUE, out |-> ev]

\* ------------------------------------------------------------------ the sink
\* Items written to the sink.  n is the position, in the session's upstream
\* sequence, of the message the item was made from (0 for items the session
\* makes itself).
\* message is the text an error event carries ("none" for the other items).
EventItem(n, ev) == [kind |-> "event", n |-> n, ev |-> ev, message |-> "none"]
PingItem == [kind |-> "ping", n |-> 0, ev |-> OtherMessage, message |-> "none"]
ErrorItem(message) ==
  [kind |-> "error", n |-> 0, ev |-> OtherMessage, message |-> message]

\* Values a catch clause can receive: what controller.enqueue and
\* controller.close throw, and what the upstream iteration raises.
ClosedError == [isError |-> TRUE, message |-> "Controller is already closed"]
BrokenError == [isError |-> TRUE, message |-> "enqueue failed"]
UpstreamErrors ==
  {[isError |-> TRUE, message |-> "upstream failed"],
   [isError |-> FALSE, message |-> "thrown value"]}

\* The one failure the queue-level specifications raise.
OneError == {[isError |-> TRUE, message |-> "upstream failed"]}

\* error instanceof Error ? error.message : "Unknown error"
RawMessage(err) == err.message
ErrorMessage(err) == IF err.isError THEN err.message ELSE "Unknown error"

IsClosedControllerError(err) ==
  err.isError /\ err.message = "Controller is already closed"

\* encoder.encode(...).byteLength of an item, in a unit per SSE line.
PayloadBytes(item) == IF item.kind = "ping" THEN 1 ELSE 2

\* controller.enqueue on an open stream queues the chunk behind the earlier ones.
WriteFirst(sink, item) == <<item>> \o sink
SinkWrite(sink, item) == Append(sink, item)

\* controller.enqueue(payload): the outcome and the stream after it.  A stream
\* the session closed or the client cancelled throws "Controller is already
\* closed"; a broken one throws something else.
EnqueueLate(s, item) ==
  IF s.sinkState = "open"
    THEN [res |-> "ok", s |-> [s EXCEPT !.sink = SinkWrite(s.sink, item)]]
  ELSE IF s.sinkState = "broken"
    THEN [res |-> "other", s |-> s]
  ELSE [res |-> "closed",
        s |-> [s EXCEPT !.closedSeen = TRUE,
                        !.sink = SinkWrite(s.sink, item)]]
\* What an item handed to enqueue is: "ping", "error" or its event name.
Label(item) == IF item.kind = "event" THEN item.ev.type ELSE item.kind

\* History fields are kept here: closedSeen, an enqueue has thrown "already
\* closed"; brokenOn, the labels of the items whose enqueue has thrown
\* something else;
\* errorAfterClosed, an error event was handed to enqueue after closedSeen;
\* lateAttempts, the labels of the items handed to enqueue after an enqueue
\* had thrown.
Enqueue(s, item) ==
  LET g == [s EXCEPT !.errorAfterClosed =
                       @ \/ (item.kind = "error" /\ s.closedSeen),
                     !.lateAttempts =
                       IF s.closedSeen \/ s.brokenOn # {}
                         THEN @ \cup {Label(item)} ELSE @]
  IN IF s.sinkState = "open"
       THEN [res |-> "ok", s |-> [g EXCEPT !.sink = SinkWrite(s.sink, item)]]
     ELSE IF s.sinkState = "broken"
       THEN [res |-> "other", s |-> [g EXCEPT !.brokenOn = @ \cup {Label(item)}]]
     ELSE [res |-> "closed", s |-> [g EXCEPT !.closedSeen = TRUE]]

\* The value thrown by an enqueue or close whose outcome was res.
ThrownBy(res) == IF res = "closed" THEN ClosedError ELSE BrokenError

\* controller.close()
CloseLeavesOpen(s) == [res |-> "ok", s |-> s]
\* closedAgain is a history field: close was called on a stream the session
\* had closed.
Close(s) ==
  IF s.sinkState = "open"
    THEN [res |-> "ok", s |-> [s EXCEPT !.sinkState = "closed"]]
  ELSE IF s.sinkState = "broken"
    THEN [res |-> "other", s |-> s]
  ELSE [res |-> "closed",
        s |-> [s EXCEPT !.closedAgain = @ \/ s.sinkState = "closed"]]

\* --------------------------------------------------- one streaming session
\* The state of one ReadableStream start(controller) run.  status is
\* "none" before the stream exists, "streaming" while the for-await loop is
\* waiting for the next upstream message (the upstream session is active),
\* "done" once start() has returned and "escaped" once an exception has left
\* start().  up is the upstream sequence received so far.  The counters and
\* streamClosed are revision B's; heartbeatCount counts the timer's ticks and
\* sseHeartbeatMs is the period the session was configured with.
NoStream ==
  [status |-> "none", sinkState |-> "none", sink |-> <<>>, up |-> <<>>,
   skip |-> {}, heartbeat |-> FALSE, heartbeatCount |-> 0,
   streamClosed |-> FALSE, streamEventsSeen |-> 0, eventsForwarded |-> 0,
   textEventsForwarded |-> 0, bytesSent |-> 0,
   closedSeen |-> FALSE, errorAfterClosed |-> FALSE,
   brokenOn |-> {}, closedAgain |-> FALSE, lateAttempts |-> {}, sseHeartbeatMs |-> 0,
   sentText |-> FALSE, successResultText |-> "absent", resultError |-> "none"]

\* start(controller) up to its first await: query(), setInterval, the loop waits.
FixedHeartbeatMs == 15000
StartStream ==
  [NoStream EXCEPT !.status = "streaming", !.sinkState = "open",
                   !.heartbeat = TRUE, !.sseHeartbeatMs = FixedHeartbeatMs]

KeepInterval(s) == s
ClearInterval(s) == [s EXCEPT !.heartbeat = FALSE]

\* ---- revision A (src/src/proxy/server.ts)
\* catch (error): enqueue the error event, then close; either may throw again.
ErrorTwice(s, err) ==
  LET e1 == Enqueue(s, ErrorItem(ErrorMessage(err)))
      e == Enqueue(e1.s, ErrorItem(ErrorMessage(err)))
      c == Close(e.s)
  IN IF e.res # "ok" THEN [e.s EXCEPT !.status = "escaped"]
     ELSE [c.s EXCEPT !.status = IF c.res = "ok" THEN "done" ELSE "escaped"]
FailA(s, err) ==
  LET e == Enqueue(s, ErrorItem(ErrorMessage(err)))
      c == Close(e.s)
  IN IF e.res # "ok" THEN [e.s EXCEPT !.status = "escaped"]
     ELSE [c.s EXCEPT !.status = IF c.res = "ok" THEN "done" ELSE "escaped"]

\* One message read by the for-await loop.
OnMessageA(s0, m) ==
  LET s == [s0 EXCEPT !.up = Append(@, m)]
      r == Remap("A", s.skip, m)
      s1 == [s EXCEPT !.skip = r.skip]
      e == Enqueue(s1, EventItem(Len(s.up), r.out))
  IN IF m.msg # "stream_event" THEN s
     ELSE IF ~r.forward THEN s1
     ELSE IF e.res = "ok" THEN e.s
     ELSE FailA(ClearInterval(e.s), ThrownBy(e.res))

\* The upstream sequence ends: finally clearInterval, then controller.close().
CloseAgain(s) ==
  LET c == Close(Close(ClearInterval(s)).s)
  IN IF c.res = "ok" THEN [c.s EXCEPT !.status = "done"]
     ELSE FailA(ClearInterval(c.s), ThrownBy(c.res))
OnEndA(s) ==
  LET c == Close(ClearInterval(s))
  IN IF c.res = "ok" THEN [c.s EXCEPT !.status = "done"]
     ELSE FailA(ClearInterval(s), ThrownBy(c.res))

\* The upstream iteration raises err.
OnThrowA(s, err) == FailA(ClearInterval(s), err)

\* The setInterval callback.
OnTickA(s0) ==
  LET s == [s0 EXCEPT !.heartbeatCount = @ + 1]
      e == Enqueue(s, PingItem)
  IN IF e.res = "ok" THEN e.s ELSE ClearInterval(e.s)

\* ---- revision B (src/unnamed/part_002, lines 1-534)
CountsFailed(s, item) ==
  LET e == Enqueue(s, item)
  IN IF s.streamClosed THEN [res |-> "false", s |-> s]
     ELSE IF e.res = "ok"
       THEN [res |-> "true",
             s |-> [e.s EXCEPT !.bytesSent = @ + PayloadBytes(item)]]
     ELSE IF e.res = "closed"
       THEN [res |-> "false",
             s |-> [e.s EXCEPT !.streamClosed = TRUE,
                               !.bytesSent = @ + PayloadBytes(item)]]
     ELSE [res |-> "throw", s |-> e.s]
SafeEnqueue(s, item) ==
  LET e == Enqueue(s, item)
  IN IF s.streamClosed THEN [res |-> "false", s |-> s]
     ELSE IF e.res = "ok"
       THEN [res |-> "true",
             s |-> [e.s EXCEPT !.bytesSent = @ + PayloadBytes(item)]]
     ELSE IF e.res = "closed"
       THEN [res |-> "false", s |-> [e.s EXCEPT !.streamClosed = TRUE]]
     ELSE [res |-> "throw", s |-> e.s]

\* catch (error) with an error that is not "already closed".
FailB(s, err) ==
  LET e == SafeEnqueue(s, ErrorItem(ErrorMessage(err)))
      c == Close(e.s)
  IN IF e.res = "throw" THEN [e.s EXCEPT !.status = "escaped"]
     ELSE IF e.s.streamClosed THEN [e.s EXCEPT !.status = "done"]
     ELSE IF c.res = "ok"
       THEN [c.s EXCEPT !.streamClosed = TRUE, !.status = "done"]
     ELSE [c.s EXCEPT !.status = "escaped"]

\* After the loop: if (!streamClosed) controller.close(); a close that throws
\* "already closed" is caught and only sets streamClosed.
FinishB(s) ==
  LET c == Close(s)
  IN IF s.streamClosed THEN [s EXCEPT !.status = "done"]
     ELSE IF c.res = "ok"
       THEN [c.s EXCEPT !.streamClosed = TRUE, !.status = "done"]
     ELSE IF c.res = "closed"
       THEN [s EXCEPT !.streamClosed = TRUE, !.status = "done"]
     ELSE FailB(s, ThrownBy(c.res))

ReadOnAfterClose(s0, m) ==
  LET s == [s0 EXCEPT !.up = Append(@, m)]
      s1 == [s EXCEPT !.streamEventsSeen = @ + 1]
      r == Remap("B", s1.skip, m)
      s2 == [s1 EXCEPT !.skip = r.skip]
      e == SafeEnqueue(s2, EventItem(Len(s.up), r.out))
      isText == m.type = "content_block_delta" /\ m.delta = "text_delta"
  IN IF m.msg # "stream_event" THEN s
     ELSE IF ~r.forward THEN s2
     ELSE IF e.res = "true"
       THEN [e.s EXCEPT !.eventsForwarded = @ + 1,
                        !.textEventsForwarded = IF isText THEN @ + 1 ELSE @]
     ELSE IF e.res = "false" THEN FinishB(ClearInterval(e.s))
     ELSE FailB(ClearInterval(e.s), ThrownBy("other"))
OnMessageB(s0, m) ==
  LET s == [s0 EXCEPT !.up = Append(@, m)]
      s1 == [s EXCEPT !.streamEventsSeen = @ + 1]
      r == Remap("B", s1.skip, m)
      s2 == [s1 EXCEPT !.skip = r.skip]
      e == SafeEnqueue(s2, EventItem(Len(s.up), r.out))
      isText == m.type = "content_block_delta" /\ m.delta = "text_delta"
  IN IF s.streamClosed THEN FinishB(ClearInterval(s))
     ELSE IF m.msg # "stream_event" THEN s
     ELSE IF ~r.forward THEN s2
     ELSE IF e.res = "true"
       THEN [e.s EXCEPT !.eventsForwarded = @ + 1,
                        !.textEventsForwarded = IF isText THEN @ + 1 ELSE @]
     ELSE IF e.res = "false" THEN FinishB(ClearInterval(e.s))
     ELSE FailB(ClearInterval(e.s), ThrownBy("other"))

OnEndB(s) == FinishB(ClearInterval(s))

\* catch (error): an "already closed" error ends the session quietly.
CatchB(s, err) ==
  IF IsClosedControllerError(err)
    THEN [s EXCEPT !.streamClosed = TRUE, !.status = "done"]
    ELSE FailB(s, err)

OnThrowB(s, err) == CatchB(ClearInterval(s), err)

OnTickB(s0) ==
  LET s == [s0 EXCEPT !.heartbeatCount = @ + 1]
      e == SafeEnqueue(s, PingItem)
  IN IF e.res = "true" THEN e.s ELSE ClearInterval(e.s)

\* ---- revision C (src/unnamed/part_002, lines 536-923)
\* The SDK messages revision C's loop tells apart.  blocks are the types of
\* the content blocks of an assistant message; result is the result text of a
\* result message: "absent", "blank" (empty or white space) or "text".
Assistant(blocks) ==
  [msg |-> "assistant", blocks |-> blocks, subtype |-> "none",
   result |-> "absent"]
Result(subtype, result) ==
  [msg |-> "result", blocks |-> <<>>, subtype |-> subtype, result |-> result]
SystemMessage ==
  [msg |-> "system", blocks |-> <<>>, subtype |-> "init", result |-> "absent"]

SdkMessages ==
  {Assistant(<<"text">>), Assistant(<<"tool_use">>), SystemMessage,
   Result("success", "text"), Result("success", "blank"),
   Result("error_max_turns", "absent")}

\* safeEnqueue of revision C: whatever controller.enqueue throws is caught and
\* answered with false.
SafeEnqueueC(s, item) ==
  LET e == Enqueue(s, item)
  IN [res |-> IF e.res = "ok" THEN "true" ELSE "false", s |-> e.s]

\* sendEvent for each of items in turn.
RECURSIVE SendAll(_, _)
SendAll(s, items) ==
  IF items = <<>> THEN s
  ELSE SendAll(SafeEnqueueC(s, Head(items)).s, Tail(items))

\* The events the session makes itself.
Preamble ==
  <<EventItem(0, MessageStart), EventItem(0, BlockStart(0, "text"))>>
TerminalSequence ==
  <<EventItem(0, BlockStop(0)), EventItem(0, MessageDelta("end_turn", "zero")),
    EventItem(0, MessageStop)>>

\* start(controller) up to its first await: message_start and
\* content_block_start are sent, query() is called and the timer is set if
\* sseHeartbeatMs > 0.
TimerAlways(sseHeartbeatMs) ==
  [SendAll([NoStream EXCEPT !.status = "streaming", !.sinkState = "open"],
           Preamble)
     EXCEPT !.heartbeat = TRUE, !.sseHeartbeatMs = sseHeartbeatMs]
StartStreamC(sseHeartbeatMs) ==
  [SendAll([NoStream EXCEPT !.status = "streaming", !.sinkState = "open"],
           Preamble)
     EXCEPT !.heartbeat = sseHeartbeatMs > 0,
            !.sseHeartbeatMs = sseHeartbeatMs]

\* catch (error): sendEvent("error"), then controller.close(), which throws
\* out of start() when the stream is no longer open.
CatchC(s, err) ==
  LET e == SafeEnqueueC(s, ErrorItem(ErrorMessage(err)))
      c == Close(e.s)
  IN [c.s EXCEPT !.status = IF c.res = "ok" THEN "done" ELSE "escaped"]

SdkEnded(subtype) == "Claude Agent SDK ended with " \o subtype

\* One message read by the for-await loop.
OnMessageC(s0, m) ==
  LET s == [s0 EXCEPT !.up = Append(@, m)]
      s1 == IF m.msg # "result" THEN s
            ELSE IF m.subtype = "success"
              THEN [s EXCEPT !.successResultText = m.result]
            ELSE IF m.subtype # "none"
              THEN [s EXCEPT !.resultError = m.subtype]
            ELSE s
      texts == SelectSeq(m.blocks, LAMBDA b : b = "text")
      deltas == [i \in 1..Len(texts) |-> EventItem(Len(s.up), TextDelta(0))]
  IN IF m.msg = "assistant" /\ texts # <<>>
       THEN [SendAll(s1, deltas) EXCEPT !.sentText = TRUE]
       ELSE s1

\* The upstream sequence ends: the result text is sent if no text was, then
\* either the error event of a failed result or the terminal sequence.
OnEndC(s) ==
  LET s1 == IF ~s.sentText /\ s.successResultText = "text"
              THEN [SendAll(s, <<EventItem(0, TextDelta(0))>>)
                      EXCEPT !.sentText = TRUE]
              ELSE s
      e == SafeEnqueueC(s1, ErrorItem(SdkEnded(s1.resultError)))
      ce == Close(e.s)
      s2 == SendAll(ClearInterval(s1), TerminalSequence)
      c2 == Close(s2)
  IN IF s1.resultError # "none"
       THEN IF ce.res = "ok"
              THEN [ClearInterval(ce.s) EXCEPT !.status = "done"]
              ELSE CatchC(ClearInterval(e.s), ThrownBy(ce.res))
     ELSE IF c2.res = "ok" THEN [c2.s EXCEPT !.status = "done"]
     ELSE CatchC(s2, ThrownBy(c2.res))

OnThrowC(s, err) == CatchC(ClearInterval(s), err)

\* The setInterval callback: sendComment("ping").
OnTickC(s0) ==
  LET s == [s0 EXCEPT !.heartbeatCount = @ + 1]
      e == SafeEnqueueC(s, PingItem)
  IN IF e.res = "true" THEN e.s ELSE ClearInterval(e.s)

\* ---- the revision the process runs
OnMessage(v, s, m) ==
  IF v = "A" THEN OnMessageA(s, m)
  ELSE IF v = "B" THEN OnMessageB(s, m)
  ELSE OnMessageC(s, m)
OnEnd(v, s) ==
  IF v = "A" THEN OnEndA(s) ELSE IF v = "B" THEN OnEndB(s) ELSE OnEndC(s)
OnThrow(v, s, err) ==
  IF v = "A" THEN OnThrowA(s, err)
  ELSE IF v = "B" THEN OnThrowB(s, err)
  ELSE OnThrowC(s, err)
OnTick(v, s) ==
  IF v = "A" THEN OnTickA(s) ELSE IF v = "B" THEN OnTickB(s) ELSE OnTickC(s)

\* ------------------------------------------------------------------- state
VARIABLES
  ver,          \* the revision of server.ts the process runs
  route,        \* request -> the server instance and path ArriveAt saw it on
  arrived,      \* number of POSTs received; request ids are arrival numbers
  pc,           \* request -> "new", "queued", "parsing", "aggregating", "responded"
  queue,        \* requestQueue: the jobs added and not yet started, head first
  pending,      \* requestQueue.pending: jobs started and not yet settled
  starts,       \* the requests in the order their job bodies were started
  waited,       \* the requests whose job did not start at once when added
  response,     \* request -> what handleMessages returned
  fullContent,  \* request -> the text a non-streaming run has accumulated
  seen,         \* request -> upstream messages a non-streaming run has read
  body,         \* request -> the body handleMessages returned
  input,        \* the parsed request body the translator is given
  output,       \* the model and the prompt made from it
  stream        \* request -> the state of its streaming session

vars == <<ver, route, arrived, pc, queue, pending, starts, waited, response,
          fullContent, seen, body, input, output, stream>>

Fallback ==
  <<"I can help with that. Could you provide more details about what you'd like me to do?">>

\* -------------------------------------------------- the request translator
\* Text is a sequence of pieces: single characters in a model name, whole
\* words in a prompt.
\* Array.prototype.join(separator)
RECURSIVE Join(_, _)
Join(texts, separator) ==
  IF texts = <<>> THEN <<>>
  ELSE IF Len(texts) = 1 THEN texts[1]
  ELSE texts[1] \o separator \o Join(Tail(texts), separator)

\* String.prototype.includes(needle)
Includes(text, needle) ==
  \E i \in 0..(Len(text) - Len(needle)) :
    SubSeq(text, i + 1, i + Len(needle)) = needle

Opus == <<"o", "p", "u", "s">>
Haiku == <<"h", "a", "i", "k", "u">>
Sonnet == <<"s", "o", "n", "n", "e", "t">>

HaikuFirst(model) ==
  IF Includes(model, Haiku) THEN "haiku"
  ELSE IF Includes(model, Opus) THEN "opus"
  ELSE "sonnet"
mapModelToClaudeModel(model) ==
  IF Includes(model, Opus) THEN "opus"
  ELSE IF Includes(model, Haiku) THEN "haiku"
  ELSE "sonnet"

\* A field the body does not have.
Absent == [kind |-> "absent"]
Str(text) == [kind |-> "string", text |-> text]
Blocks(blocks) == [kind |-> "array", blocks |-> blocks]
Other(shown) == [kind |-> "other", shown |-> shown]
TextBlock(text) == [type |-> "text", text |-> text]
ImageBlock == [type |-> "image", text |-> <<>>]
MessageList(items) == [kind |-> "array", items |-> items]

\* body.model || "sonnet"
RawModel(parsed) ==
  IF parsed.model = Absent \/ parsed.model.text = <<>>
    THEN Sonnet ELSE parsed.model.text

\* .filter(b => b.type === "text" && b.text).map(b => b.text)
TextsOf(blocks) ==
  LET kept == SelectSeq(blocks, LAMBDA b : b.type = "text" /\ b.text # <<>>)
  IN [i \in 1..Len(kept) |-> kept[i].text]

SystemContext(system) ==
  IF system.kind = "string" THEN system.text
  ELSE IF system.kind = "array" THEN Join(TextsOf(system.blocks), <<"\n">>)
  ELSE <<>>

AlwaysHuman(role) == "Human"
RoleLabel(role) == IF role = "assistant" THEN "Assistant" ELSE "Human"

\* The text of one message's content: the string, the text blocks joined
\* with nothing between them, or String(m.content).
ContentText(content) ==
  IF content.kind = "string" THEN content.text
  ELSE IF content.kind = "array" THEN Join(TextsOf(content.blocks), <<>>)
  ELSE <<content.shown>>

\* `${role}: ${content}`
RenderMessage(m) == <<RoleLabel(m.role), ": ">> \o ContentText(m.content)

\* body.messages?.map(...).join("\n\n") || ""
ConversationParts(messages) ==
  IF messages = Absent THEN <<>>
  ELSE Join([i \in 1..Len(messages.items) |->
               RenderMessage(messages.items[i])],
            <<"\n\n">>)

\* systemContext ? `${systemContext}\n\n${conversationParts}`
\*               : conversationParts
Prompt(parsed) ==
  IF SystemContext(parsed.system) # <<>>
    THEN SystemContext(parsed.system) \o <<"\n\n">>
           \o ConversationParts(parsed.messages)
    ELSE ConversationParts(parsed.messages)

\* What handleMessages hands to query().
NoOutput == [model |-> "none", prompt |-> <<>>]
Translated(parsed) ==
  [model |-> mapModelToClaudeModel(RawModel(parsed)),
   prompt |-> Prompt(parsed)]

\* The bodies translated.  Model names are made of up to MaxParts parts,
\* some of which only make "opus" when they meet.
NameParts == {Opus, Haiku, <<"o", "p">>, <<"u", "s">>, <<"-", "4">>}
RECURSIVE Names(_)
Names(n) ==
  IF n = 0 THEN {<<>>}
  ELSE Names(n - 1) \cup {a \o b : a \in Names(n - 1), b \in NameParts}

Roles == {"assistant", "user", "system"}
Contents ==
  {Str(<<"x">>), Str(<<>>), Other("null"),
   Blocks(<<TextBlock(<<"y">>), ImageBlock, TextBlock(<<>>),
            TextBlock(<<"z">>)>>)}
RECURSIVE MessageLists(_)
MessageLists(n) ==
  IF n = 0 THEN {<<>>}
  ELSE MessageLists(n - 1)
         \cup {Append(ms, [role |-> role, content |-> content]) :
                ms \in MessageLists(n - 1), role \in Roles,
                content \in Contents}
Systems ==
  {Absent, Str(<<>>), Str(<<"s">>), Other("7"),
   Blocks(<<TextBlock(<<"a">>), ImageBlock, TextBlock(<<"b">>)>>),
   Blocks(<<ImageBlock>>)}

DefaultBody ==
  [model |-> Absent, system |-> Absent,
   messages |->
     MessageList(<<[role |-> "user", content |-> Str(<<"x">>)]>>)]
ModelBodies ==
  {[DefaultBody EXCEPT !.model = model] :
     model \in {Absent} \cup {Str(name) : name \in Names(MaxParts)}}
PromptBodies ==
  {[DefaultBody EXCEPT !.system = system, !.messages = messages] :
     system \in Systems,
     messages \in {Absent}
                    \cup {MessageList(ms) : ms \in MessageLists(MaxMessages)}}
Bodies == ModelBodies \cup PromptBodies

\* ------------------------------------------------------- response bodies
NoBody == [status |-> 0, type |-> "none", text |-> <<>>, message |-> "none"]

\* new Response(readable, {headers: "Content-Type": "text/event-stream"})
SseBody ==
  [status |-> 200, type |-> "sse", text |-> <<>>, message |-> "none"]

\* c.json({type: "message", content: [{type: "text", text: fullContent}]})
MessageBody(content) ==
  [status |-> 200, type |-> "message", text |-> content, message |-> "none"]

\* The outer catch: c.json({type: "error", error: {type: "api_error",
\* message}}, 500).  content is what the run had accumulated when it failed.
PartialBody(content, err) == MessageBody(content)
ErrorBody(content, err) ==
  [status |-> 500, type |-> "api_error", text |-> <<>>,
   message |-> ErrorMessage(err)]

\* await c.req.json() rejects with a SyntaxError.
ParseError == [isError |-> TRUE, message |-> "Unexpected token"]

\* The text of the message a finished non-streaming run returns.  Revisions
\* A and B substitute the fallback sentence for an empty text; revision C
\* returns the text as it is.
FinalContent(v, content) ==
  IF v # "C" /\ content = <<>> THEN Fallback ELSE content

\* ------------------------------------------------------ the admission queue
\* The part of the state PQueue's add/next work on.
QueueState ==
  [queue |-> queue, pending |-> pending, pc |-> pc, starts |-> starts]

AddFirst(q, r) == <<r>> \o q
QueueAdd(q, r) == Append(q, r)

\* PQueue starts the head job when fewer than `concurrency` jobs are pending;
\* the job body (handleMessages) runs up to its first await, c.req.json().
TryToStartAnother(qs) ==
  IF qs.pending < Concurrency /\ qs.queue # <<>>
    THEN [queue |-> Tail(qs.queue),
          pending |-> qs.pending + 1,
          pc |-> [qs.pc EXCEPT ![Head(qs.queue)] = "parsing"],
          starts |-> Append(qs.starts, Head(qs.queue))]
    ELSE qs

\* requestQueue.add(() => handleMessages(c))
Add(qs, r) ==
  TryToStartAnother([qs EXCEPT !.queue = QueueAdd(@, r), !.pc[r] = "queued"])

\* The pending count once a job has settled, whatever it returned or threw.
PendingIfSucceeded(p, outcome) == IF outcome = "error" THEN p ELSE p - 1
PendingAfter(p, outcome) == p - 1

\* The job of request r settles: the slot is released and the next job starts.
SettleAndStop(qs, r, outcome) ==
  [qs EXCEPT !.pending = PendingAfter(@, outcome), !.pc[r] = "responded"]
Settle(qs, r, outcome) ==
  TryToStartAnother([qs EXCEPT !.pending = PendingAfter(@, outcome),
                               !.pc[r] = "responded"])

\* Revision C has no requestQueue: app.post(path, handleMessages) runs the
\* handler at once, up to its first await.
StartNow(qs, r) ==
  [qs EXCEPT !.pc[r] = "parsing", !.starts = Append(@, r)]

Admit(v, qs, r) == IF v = "C" THEN StartNow(qs, r) ELSE Add(qs, r)

\* handleMessages has returned: with a queue the job settles.
Finish(v, qs, r, outcome) ==
  IF v = "C" THEN [qs EXCEPT !.pc[r] = "responded"]
  ELSE Settle(qs, r, outcome)

SetQueue(qs) ==
  /\ queue' = qs.queue
  /\ pending' = qs.pending
  /\ pc' = qs.pc
  /\ starts' = qs.starts

\* -------------------------------------------------------------------- Init
NoRoute == [instance |-> 0, path |-> "none"]

InitState ==
  /\ route = [r \in Req |-> NoRoute]
  /\ arrived = 0
  /\ pc = [r \in Req |-> "new"]
  /\ queue = <<>>
  /\ pending = 0
  /\ starts = <<>>
  /\ waited = {}
  /\ response = [r \in Req |-> "none"]
  /\ fullContent = [r \in Req |-> <<>>]
  /\ seen = [r \in Req |-> 0]
  /\ body = [r \in Req |-> NoBody]
  /\ output = NoOutput
  /\ stream = [r \in Req |-> NoStream]

\* A process running a revision that has the queue.
Init == ver \in Versions /\ input = DefaultBody /\ InitState

\* A process running any of the three revisions.
InitAny == ver \in AllVersions /\ input = DefaultBody /\ InitState

\* The translator of revisions A and B, given any of the bodies.
InitTranslate == ver \in Versions /\ input \in Bodies /\ InitState

\* ----------------------------------------------------------------- actions
\* app.post(ep, (c) => requestQueue.add(() => handleMessages(c))): a POST
\* on route ep.  Both routes add to the one module-level requestQueue.
Arrive(ep) ==
  /\ arrived < MaxReq
  /\ arrived' = arrived + 1
  /\ SetQueue(Admit(ver, QueueState, arrived + 1))
  /\ waited' = IF Admit(ver, QueueState, arrived + 1).pc[arrived + 1]
                    = "queued"
                 THEN waited \cup {arrived + 1}
                 ELSE waited
  /\ UNCHANGED <<ver, route, input, output, response, fullContent, seen, body, stream>>

\* The servers createProxyServer has made in this process.
Instances == {1, 2}

\* The handler either path of either server registers: requestQueue is the
\* one module-level queue.
InstanceUnqueued(v, qs, r, instance, path) ==
  IF instance = 1 THEN Admit(v, qs, r) ELSE StartNow(qs, r)
RouteAdmit(v, qs, r, instance, path) == Admit(v, qs, r)

\* A POST arrives on path of server instance; route remembers where.
ArriveAt(instance, path) ==
  /\ arrived < MaxReq
  /\ arrived' = arrived + 1
  /\ route' = [route EXCEPT ![arrived + 1] =
                 [instance |-> instance, path |-> path]]
  /\ SetQueue(RouteAdmit(ver, QueueState, arrived + 1, instance, path))
  /\ waited' = IF RouteAdmit(ver, QueueState, arrived + 1, instance, path)
                     .pc[arrived + 1] = "queued"
                 THEN waited \cup {arrived + 1}
                 ELSE waited
  /\ UNCHANGED <<ver, input, output, response, fullContent, seen, body, stream>>

\* await c.req.json() (or the shape access after it) throws: the outer catch
\* answers 500 and the job settles.
HoldSlot(r) ==
  /\ pc[r] = "parsing"
  /\ response[r] = "none"
  /\ response' = [response EXCEPT ![r] = "error500"]
  /\ body' = [body EXCEPT ![r] = ErrorBody(fullContent[r], ParseError)]
  /\ UNCHANGED <<ver, route, input, output, arrived, waited, fullContent, seen, stream,
                 queue, pending, pc, starts>>
ParseFail(r) ==
  /\ pc[r] = "parsing"
  /\ response' = [response EXCEPT ![r] = "error500"]
  /\ body' = [body EXCEPT ![r] = ErrorBody(fullContent[r], ParseError)]
  /\ SetQueue(Finish(ver, QueueState, r, "error"))
  /\ UNCHANGED <<ver, route, input, output, arrived, waited, fullContent, seen, stream>>

\* body.stream is false: query() is called and the job awaits its first message.
ReleaseEarly(r) ==
  /\ pc[r] = "parsing"
  /\ SetQueue(TryToStartAnother([QueueState EXCEPT !.pending = @ - 1,
                                                    !.pc[r] = "aggregating"]))
  /\ UNCHANGED <<ver, route, input, output, arrived, waited,
                 response, fullContent, seen, body, stream>>
ParseJson(r) ==
  /\ pc[r] = "parsing"
  /\ pc' = [pc EXCEPT ![r] = "aggregating"]
  /\ UNCHANGED <<ver, route, input, output, arrived, queue, pending, starts, waited,
                 response, fullContent, seen, body, stream>>

\* body.stream is true or absent: the ReadableStream is built, start() runs to
\* its first await, the Response is returned and the job settles.
ParseStream(r) ==
  /\ ver \in Versions
  /\ pc[r] = "parsing"
  /\ stream' = [stream EXCEPT ![r] = StartStream]
  /\ response' = [response EXCEPT ![r] = "sse"]
  /\ body' = [body EXCEPT ![r] = SseBody]
  /\ SetQueue(Finish(ver, QueueState, r, "ok"))
  /\ UNCHANGED <<ver, route, input, output, arrived, waited, fullContent, seen>>

\* Revision C, body.stream true or absent: the same, with the preamble written
\* by start() and the keepalive timer set as the configuration says.
ParseStreamC(r, sseHeartbeatMs) ==
  /\ ver = "C"
  /\ pc[r] = "parsing"
  /\ stream' = [stream EXCEPT ![r] = StartStreamC(sseHeartbeatMs)]
  /\ response' = [response EXCEPT ![r] = "sse"]
  /\ body' = [body EXCEPT ![r] = SseBody]
  /\ SetQueue(Finish(ver, QueueState, r, "ok"))
  /\ UNCHANGED <<ver, route, input, output, arrived, waited, fullContent, seen>>

\* The non-streaming loop reads one message; text is the concatenation of the
\* text blocks of an assistant message (empty for any other message).
AggMessage(r, text) ==
  /\ pc[r] = "aggregating"
  /\ seen' = [seen EXCEPT ![r] = @ + 1]
  /\ fullContent' = [fullContent EXCEPT ![r] = @ \o text]
  /\ UNCHANGED <<ver, route, input, output, arrived, pc, queue, pending, starts, waited,
                 response, body, stream>>

\* The non-streaming upstream run ends: the message is returned.
AggEnd(r) ==
  /\ pc[r] = "aggregating"
  /\ fullContent' = [fullContent EXCEPT ![r] = FinalContent(ver, @)]
  /\ response' = [response EXCEPT ![r] = "message"]
  /\ body' =
       [body EXCEPT ![r] = MessageBody(FinalContent(ver, fullContent[r]))]
  /\ SetQueue(Finish(ver, QueueState, r, "ok"))
  /\ UNCHANGED <<ver, route, input, output, arrived, waited, seen, stream>>

\* The non-streaming upstream run raises err: the outer catch answers 500.
AggThrow(r, err) ==
  /\ pc[r] = "aggregating"
  /\ response' = [response EXCEPT ![r] = "error500"]
  /\ body' = [body EXCEPT ![r] = ErrorBody(fullContent[r], err)]
  /\ SetQueue(Finish(ver, QueueState, r, "error"))
  /\ UNCHANGED <<ver, route, input, output, arrived, waited, fullContent, seen, stream>>

\* Upstream messages read so far by all runs, streaming or not.
RECURSIVE ReadUpTo(_)
ReadUpTo(n) ==
  IF n = 0 THEN 0
  ELSE Len(stream[n].up) + seen[n] + ReadUpTo(n - 1)

MessagesRead == ReadUpTo(MaxReq)

StreamUnchanged ==
  UNCHANGED <<ver, route, input, output, arrived, pc, queue, pending, starts, waited,
              response, fullContent, seen, body>>

\* The suppressed-index set the loop of session r works on: the
\* skipBlockIndices its own start(controller) created.
SharedSkip(st, r) == UNION {st[q].skip : q \in Req}
SkipBlockIndices(st, r) == st[r].skip

\* The streaming loop reads message m from the upstream session.
StreamMessage(r, m) ==
  /\ stream[r].status = "streaming"
  /\ stream' = [stream EXCEPT
       ![r] = OnMessage(ver, [@ EXCEPT !.skip = SkipBlockIndices(stream, r)], m)]
  /\ StreamUnchanged

\* The upstream sequence of a streaming session ends.
StreamEnd(r) ==
  /\ stream[r].status = "streaming"
  /\ stream' = [stream EXCEPT ![r] = OnEnd(ver, @)]
  /\ StreamUnchanged

\* The upstream iteration of a streaming session raises err.
StreamThrow(r, err) ==
  /\ stream[r].status = "streaming"
  /\ stream' = [stream EXCEPT ![r] = OnThrow(ver, @, err)]
  /\ StreamUnchanged

\* The keepalive timer fires.
Tick(r) ==
  /\ stream[r].heartbeat
  /\ stream' = [stream EXCEPT ![r] = OnTick(ver, @)]
  /\ StreamUnchanged

\* The client goes away: the runtime cancels the response stream.
ClientDisconnect(r) ==
  /\ stream[r].sinkState = "open"
  /\ stream' = [stream EXCEPT ![r].sinkState = "gone"]
  /\ StreamUnchanged

\* The stream breaks in a way that is not "already closed".
SinkBreak(r) ==
  /\ stream[r].sinkState = "open"
  /\ stream' = [stream EXCEPT ![r].sinkState = "broken"]
  /\ StreamUnchanged

\* handleMessages between the parsed body and query(): the model is mapped
\* and the prompt is rendered.
Translate ==
  /\ output = NoOutput
  /\ output' = Translated(input)
  /\ UNCHANGED <<ver, route, input, arrived, pc, queue, pending, starts, waited,
                 response, fullContent, seen, body, stream>>

\* ---------------------------------------------------------- specifications
\* The translator alone, over every body of Bodies.
TranslateNext == Translate

TranslateSpec == InitTranslate /\ [][TranslateNext]_vars

\* The whole server: up to MaxReq requests on either route.  The runs read
\* at most MaxMsgs messages between them, their clients stay connected and
\* their timers do not fire: those steps change stream alone, never the
\* queue's state, and StreamSpec below has them in full.
Next ==
  \/ \E ep \in Endpoints : Arrive(ep)
  \/ \E r \in Req : ParseFail(r)
  \/ \E r \in Req : ParseJson(r)
  \/ \E r \in Req : ParseStream(r)
  \/ \E r \in Req, text \in {<<>>, <<"t">>} :
       MessagesRead < MaxMsgs /\ AggMessage(r, text)
  \/ \E r \in Req : AggEnd(r)
  \/ \E r \in Req, err \in OneError : AggThrow(r, err)
  \/ \E r \in Req, m \in FewMessages :
       MessagesRead < MaxMsgs /\ StreamMessage(r, m)
  \/ \E r \in Req : StreamEnd(r)
  \/ \E r \in Req, err \in OneError : StreamThrow(r, err)

Spec == Init /\ [][Next]_vars

\* One streaming session in full: a single request, every upstream sequence
\* of up to MaxEvents messages, every timing of ticks and sink failures.
FirstRequest == {1}

\* Messages read and timer ticks of session r.
StepsTaken(r) == Len(stream[r].up) + stream[r].heartbeatCount

StreamNext ==
  \/ \E ep \in Endpoints : arrived + 1 \in FirstRequest /\ Arrive(ep)
  \/ \E r \in Req : ParseStream(r)
  \/ \E r \in Req : \E m \in NextMessages(stream[r].up) :
       StepsTaken(r) < MaxEvents /\ StreamMessage(r, m)
  \/ \E r \in Req : StreamEnd(r)
  \/ \E r \in Req, err \in UpstreamErrors : StreamThrow(r, err)
  \/ \E r \in Req : StepsTaken(r) < MaxEvents /\ Tick(r)
  \/ \E r \in Req : ClientDisconnect(r)
  \/ \E r \in Req : SinkBreak(r)

StreamSpec == Init /\ [][StreamNext]_vars

\* Two streaming sessions side by side, each reading its own upstream
\* sequence; the job of the first settles as soon as its response is built,
\* so the second starts while the first is still streaming.
FirstPair == {1, 2}

\* The upstream events of a turn with a text block or a tool_use block at
\* index 0.
PairMessages ==
  {MessageStart, BlockStart(0, "text"), BlockStart(0, "tool_use"),
   TextDelta(0), BlockStop(0)}

PairNext ==
  \/ \E ep \in Endpoints : arrived + 1 \in FirstPair /\ Arrive(ep)
  \/ \E r \in Req : ParseStream(r)
  \/ \E r \in Req : \E m \in NextMessages(stream[r].up) \cap PairMessages :
       MessagesRead < MaxEvents /\ StreamMessage(r, m)
  \/ \E r \in Req : StreamEnd(r)

PairSpec == Init /\ [][PairNext]_vars

\* Requests on both paths of two servers of the process, answered without
\* streaming.
RouteNext ==
  \/ \E instance \in Instances, path \in Endpoints : ArriveAt(instance, path)
  \/ \E r \in Req : ParseFail(r)
  \/ \E r \in Req : ParseJson(r)
  \/ \E r \in Req : AggEnd(r)

RouteSpec == Init /\ [][RouteNext]_vars

\* One streaming session whose upstream sequence is finite: the upstream
\* iteration of a session that is still reading ends or raises in the end.
LiveNext ==
  \/ \E ep \in Endpoints : arrived + 1 \in FirstRequest /\ Arrive(ep)
  \/ \E r \in Req : ParseStream(r)
  \/ \E r \in Req : \E m \in NextMessages(stream[r].up) \cap PairMessages :
       StepsTaken(r) < MaxEvents /\ StreamMessage(r, m)
  \/ \E r \in Req : StreamEnd(r)
  \/ \E r \in Req, err \in UpstreamErrors : StreamThrow(r, err)
  \/ \E r \in Req : StepsTaken(r) < MaxEvents /\ Tick(r)
  \/ \E r \in Req : ClientDisconnect(r)
  \/ \E r \in Req : SinkBreak(r)

LiveSpec ==
  /\ Init
  /\ [][LiveNext]_vars
  /\ \A r \in Req :
       WF_vars(StreamEnd(r) \/ \E err \in UpstreamErrors : StreamThrow(r, err))

\* One streaming session in full in any of the three revisions.  Revisions A
\* and B read the SDK's stream events, revision C its whole messages.
DefaultHeartbeatMs == 5000
HeartbeatMs == {0, DefaultHeartbeatMs}

UpstreamNext(v, up) == IF v = "C" THEN SdkMessages ELSE NextMessages(up)

SessionNext ==
  \/ \E ep \in Endpoints : arrived + 1 \in FirstRequest /\ Arrive(ep)
  \/ \E r \in Req : ParseStream(r)
  \/ \E r \in Req, ms \in HeartbeatMs : ParseStreamC(r, ms)
  \/ \E r \in Req : \E m \in UpstreamNext(ver, stream[r].up) :
       StepsTaken(r) < MaxEvents /\ StreamMessage(r, m)
  \/ \E r \in Req : StreamEnd(r)
  \/ \E r \in Req, err \in UpstreamErrors : StreamThrow(r, err)
  \/ \E r \in Req : StepsTaken(r) < MaxEvents /\ Tick(r)
  \/ \E r \in Req : ClientDisconnect(r)
  \/ \E r \in Req : SinkBreak(r)

SessionSpec == InitAny /\ [][SessionNext]_vars

\* The queue and the jobs alone, under the scheduling the runtime gives them:
\* body parsing finishes and a non-streaming upstream run ends or raises, so
\* every started job settles.  What a streaming session does after its job
\* has settled is left out: it changes stream alone.
QueueNext ==
  \/ \E ep \in Endpoints : Arrive(ep)
  \/ \E r \in Req : ParseFail(r)
  \/ \E r \in Req : ParseJson(r)
  \/ \E r \in Req : ParseStream(r)
  \/ \E r \in Req, text \in {<<>>, <<"t">>} :
       MessagesRead < MaxMsgs /\ AggMessage(r, text)
  \/ \E r \in Req : AggEnd(r)
  \/ \E r \in Req, err \in OneError : AggThrow(r, err)

FairSpec ==
  /\ Init
  /\ [][QueueNext]_vars
  /\ \A r \in Req :
       /\ WF_vars(ParseFail(r) \/ ParseJson(r) \/ ParseStream(r))
       /\ WF_vars(AggEnd(r) \/ \E err \in OneError : AggThrow(r, err))

\* The non-streaming path alone, in any of the three revisions, with every
\* failure the upstream run can raise.
AggNext ==
  \/ \E ep \in Endpoints : Arrive(ep)
  \/ \E r \in Req : ParseFail(r)
  \/ \E r \in Req : ParseJson(r)
  \/ \E r \in Req, text \in {<<>>, <<"t">>} :
       MessagesRead < MaxMsgs /\ AggMessage(r, text)
  \/ \E r \in Req : AggEnd(r)
  \/ \E r \in Req, err \in UpstreamErrors : AggThrow(r, err)

AggSpec == InitAny /\ [][AggNext]_vars

\* ------------------------------------------------------------------ claims
\* The upstream session of request r is active: query() was called and its
\* iteration has neither ended nor been left.
UpstreamActive(r) == pc[r] = "aggregating" \/ stream[r].status = "streaming"

Started(r) == \E i \in 1..Len(starts) : starts[i] = r

\* C1: single-flight - at most one upstream session is active at any instant,
\* and while a request's session is active the session of every earlier
\* request has ended and its sink is no longer open.
C1_SingleFlight ==
  /\ Cardinality({r \in Req : UpstreamActive(r)}) <= 1
  /\ \A r, q \in Req :
       (r < q /\ UpstreamActive(q)) =>
         (~UpstreamActive(r) /\ stream[r].sinkState # "open")

\* C2: FIFO start order - job bodies start in the order the requests were
\* enqueued (request ids are arrival numbers), whatever route each came in on.
C2_FifoStartOrder == \A i \in 1..Len(starts) : starts[i] = i

C2_Witness ==
  /\ {2, 3} \subseteq waited
  /\ Started(2) /\ Started(3)

\* C3: at most one job body executes at a time (pending count <= 1), however
\* many requests are enqueued and unfinished.
C3_OneBodyAtATime ==
  /\ pending <= 1
  /\ Cardinality({r \in Req : pc[r] \in {"parsing", "aggregating"}}) <= 1

C3_Witness == pending = 1 /\ Len(queue) >= 2

\* C4: a job that fails (body parse error, upstream error) releases the slot
\* like a successful one: it is over, the head of the queue starts at once and
\* takes the slot, and with nothing waiting the pending count drops by one.
C4_FailureReleasesSlot ==
  [][\A r \in Req :
       (response[r] = "none" /\ response'[r] = "error500") =>
         /\ pc'[r] = "responded"
         /\ queue # <<>> =>
              /\ pc'[Head(queue)] = "parsing"
              /\ queue' = Tail(queue)
              /\ starts' = Append(starts, Head(queue))
              /\ pending' = pending
         /\ queue = <<>> => pending' = pending - 1]_vars

C4_Witness ==
  \E r \in Req :
    response[r] = "error500" /\ r + 1 \in waited /\ Started(r + 1)

\* C5: queue liveness - when a job settles with requests waiting, the head
\* starts in that step; and, every started job settling eventually, every
\* enqueued request eventually starts.
C5_QueueLiveness ==
  /\ [][\A r \in Req :
          (pc[r] \in {"parsing", "aggregating"} /\ pc'[r] = "responded"
             /\ queue # <<>>) =>
            pc'[Head(queue)] = "parsing"]_vars
  /\ \A r \in Req : (pc[r] = "queued") ~> Started(r)

C5_Witness ==
  \E r \in Req : r \in waited /\ Started(r) /\ response[r] = "message"

\* ---- the streaming session (StreamSpec)
\* Positions of the items of kind "event" in a sink.
EventPositions(sink) == {i \in 1..Len(sink) : sink[i].kind = "event"}

\* The upstream message at position n of up was written to sink.
Written(s, n) == \E i \in EventPositions(s.sink) : s.sink[i].n = n

Indexed(m) == m.msg = "stream_event" /\ m.index # NoIndex

\* up[n] is an event of a tool_use block: the content_block_start of type
\* tool_use at some index k, or a delta or stop at k that follows such a start
\* with no message_start, no stop at k and no other start at k in between.
InToolBlock(up, n) ==
  /\ Indexed(up[n])
  /\ \/ IsToolUseStart(up[n])
     \/ /\ up[n].type \in {"content_block_delta", "content_block_stop"}
        /\ \E m \in 1..(n - 1) :
             /\ IsToolUseStart(up[m])
             /\ up[m].index = up[n].index
             /\ \A j \in (m + 1)..(n - 1) :
                  /\ up[j] # MessageStart
                  /\ ~(Indexed(up[j]) /\ up[j].index = up[n].index
                       /\ up[j].type \in {"content_block_start",
                                          "content_block_stop"})

\* The indices of the tool_use blocks started before position n, in the whole
\* session and since the last message_start.
ToolIndices(up, n) ==
  {up[m].index :
     m \in {j \in 1..(n - 1) : IsToolUseStart(up[j]) /\ Indexed(up[j])}}

ToolIndicesOfMessage(up, n) ==
  {up[m].index :
     m \in {j \in 1..(n - 1) :
              /\ IsToolUseStart(up[j]) /\ Indexed(up[j])
              /\ \A i \in j..(n - 1) : up[i] # MessageStart}}

\* The session has lost no write: the sink is open, or the session closed it.
ClientConnected(s) == s.sinkState \in {"open", "closed"}

\* C6: tool suppression - no event of a tool_use block (its start at index k,
\* the deltas and the stop at k that follow) is written to the sink.
C6_ToolSuppressed ==
  \A r \in Req :
    \A i \in EventPositions(stream[r].sink) :
      ~InToolBlock(stream[r].up, stream[r].sink[i].n)

C6_Witness ==
  \E r \in Req : \E n \in 3..Len(stream[r].up) :
    /\ stream[r].up[n - 2] = BlockStart(1, "tool_use")
    /\ stream[r].up[n - 1] = InputJsonDelta(1)
    /\ stream[r].up[n] = BlockStop(1)
    /\ stream[r].sinkState = "open"
    /\ Written(stream[r], n - 3)

\* C7: suppression is index-exact - while the client is connected, every
\* indexed event other than a tool_use start whose index was not the index of
\* a tool_use block started earlier in the session is written.
C7_IndexExact ==
  \A r \in Req :
    ClientConnected(stream[r]) =>
      \A n \in 1..Len(stream[r].up) :
        ( /\ Indexed(stream[r].up[n])
          /\ ~IsToolUseStart(stream[r].up[n])
          /\ stream[r].up[n].index \notin ToolIndices(stream[r].up, n) )
          => Written(stream[r], n)

C7_Witness ==
  \E r \in Req : \E n \in 2..Len(stream[r].up) :
    /\ stream[r].up[n] = BlockStart(1, "text")
    /\ ToolIndices(stream[r].up, n) = {0}
    /\ Written(stream[r], n)
    /\ ~Written(stream[r], n - 1)

\* C8: message_start clears the suppressed set and is itself written - while
\* the client is connected, message_start is written, and so is every indexed
\* event other than a tool_use start whose index was not the index of a
\* tool_use block started since the last message_start.
C8_ResetAtMessageStart ==
  \A r \in Req :
    ClientConnected(stream[r]) =>
      \A n \in 1..Len(stream[r].up) :
        /\ stream[r].up[n] = MessageStart => Written(stream[r], n)
        /\ ( /\ Indexed(stream[r].up[n])
             /\ ~IsToolUseStart(stream[r].up[n])
             /\ stream[r].up[n].index
                  \notin ToolIndicesOfMessage(stream[r].up, n) )
             => Written(stream[r], n)

\* C9: stop-reason normalization - every message_delta written to the sink
\* carries stop_reason end_turn.
C9_StopReasonEndTurn ==
  \A r \in Req :
    \A i \in EventPositions(stream[r].sink) :
      stream[r].sink[i].ev.type = "message_delta" =>
        stream[r].sink[i].ev.stop = "end_turn"

C9_Witness ==
  \E r \in Req : \E i, j \in EventPositions(stream[r].sink) :
    /\ stream[r].sink[i].ev.type = "message_delta"
    /\ stream[r].up[stream[r].sink[i].n].stop = "tool_use"
    /\ stream[r].sink[j].ev.type = "message_delta"
    /\ stream[r].up[stream[r].sink[j].n].stop = "absent"

\* C10: order preservation - the content events in the sink are upstream
\* events, verbatim or patched, in upstream order and each at most once,
\* wherever keepalive comments fall between them.
C10_OrderPreserved ==
  \A r \in Req :
    /\ \A i \in EventPositions(stream[r].sink) :
         /\ stream[r].sink[i].n \in 1..Len(stream[r].up)
         /\ stream[r].sink[i].ev
              \in {stream[r].up[stream[r].sink[i].n],
                   Patched(stream[r].up[stream[r].sink[i].n])}
    /\ \A i, j \in EventPositions(stream[r].sink) :
         i < j => stream[r].sink[i].n < stream[r].sink[j].n

C10_Witness ==
  \E r \in Req : \E i \in 2..(Len(stream[r].sink) - 1) :
    /\ stream[r].sink[i - 1].kind = "event"
    /\ stream[r].sink[i] = PingItem
    /\ stream[r].sink[i + 1].kind = "event"
    /\ stream[r].sink[i + 1].n > stream[r].sink[i - 1].n + 1

\* ---- the session's end (SessionSpec)
TerminalTypes == {"content_block_stop", "message_delta", "message_stop"}

IsTerminalItem(item) == item.kind = "event" /\ item.ev.type \in TerminalTypes

\* Positions of the message_stop events and of the error events in a sink.
MessageStops(sink) ==
  {i \in EventPositions(sink) : sink[i].ev.type = "message_stop"}
ErrorPositions(sink) == {i \in 1..Len(sink) : sink[i].kind = "error"}

\* C11: no double-terminal - the terminal sequence, which message_stop
\* completes, is written to the sink at most once, and no content_block_stop,
\* message_delta or message_stop is written after an error event.
C11_NoDoubleTerminal ==
  \A r \in Req :
    /\ Cardinality(MessageStops(stream[r].sink)) <= 1
    /\ \A i \in ErrorPositions(stream[r].sink) :
         \A j \in (i + 1)..Len(stream[r].sink) :
           ~IsTerminalItem(stream[r].sink[j])

\* C12: client-gone quietness - once a write has failed with "already
\* closed", no error event is handed to the sink and no exception leaves
\* start().
C12_ClientGoneQuiet ==
  \A r \in Req :
    stream[r].closedSeen =>
      /\ ~stream[r].errorAfterClosed
      /\ stream[r].status # "escaped"

\* Positions of the items of a sink that are events, not keepalive comments.
NotPings(sink) == {i \in 1..Len(sink) : sink[i].kind # "ping"}

\* C13: defined terminal event - when the session has closed the sink, the
\* last event in it is an error event or message_stop; in particular the sink
\* is never closed with no event in it.
C13_DefinedTerminal ==
  \A r \in Req :
    stream[r].sinkState = "closed" =>
      \E i \in NotPings(stream[r].sink) :
        /\ \A j \in NotPings(stream[r].sink) : j <= i
        /\ \/ stream[r].sink[i].kind = "error"
           \/ stream[r].sink[i].ev.type = "message_stop"

\* The session is Closed: it closed the sink, or it found the client gone.
SessionClosed(s) ==
  s.sinkState = "closed" \/ s.streamClosed \/ s.closedSeen

C17_FallbackOnEmpty ==
  [][\A r \in Req :
       (response[r] = "none" /\ response'[r] = "message") =>
         /\ body'[r].text # <<>>
         /\ body'[r].text =
              IF fullContent[r] = <<>> THEN Fallback ELSE fullContent[r]]_vars

\* C18: a non-streaming request ends with a complete message, returned by the
\* step in which the upstream iteration finishes, or with a 500 api_error
\* envelope, returned when body parsing or the upstream run raises; the
\* envelope carries none of the text accumulated before the failure.
C18_NonStreamOutcomes ==
  /\ [](\A r \in Req :
          (pc[r] = "responded" /\ response[r] # "sse") =>
            \/ /\ response[r] = "message"
               /\ body[r].status = 200
               /\ body[r].type = "message"
            \/ /\ response[r] = "error500"
               /\ body[r].status = 500
               /\ body[r].type = "api_error"
               /\ body[r].text = <<>>)
  /\ [][\A r \in Req :
          body'[r] # body[r] =>
            /\ body'[r].type = "message" => AggEnd(r)
            /\ body'[r].type = "api_error" =>
                 \/ ParseFail(r)
                 \/ \E err \in UpstreamErrors : AggThrow(r, err)]_vars

C18_Witness ==
  \E r \in Req :
    /\ response[r] = "error500"
    /\ fullContent[r] # <<>>
    /\ body[r].type = "api_error"
    /\ body[r].message = "Unknown error"

\* ---- the request translator (TranslateSpec)
\* word occurs in name: its pieces stand at consecutive positions.
OccursIn(word, name) ==
  \E i \in 1..Len(name) :
    /\ i + Len(word) - 1 <= Len(name)
    /\ \A k \in 1..Len(word) : name[i + k - 1] = word[k]

\* The model name the request asked for; no pieces when it names none.
RequestedName ==
  IF input.model = Absent THEN <<>> ELSE input.model.text

\* C19: model mapping is total and ordered - the mapped model is opus when
\* the requested name contains "opus", else haiku when it contains "haiku",
\* else sonnet (so for a missing name too), and it is always one of the three.
C19_ModelMapping ==
  output # NoOutput =>
    /\ output.model \in {"opus", "haiku", "sonnet"}
    /\ output.model =
         IF OccursIn(Opus, RequestedName) THEN "opus"
         ELSE IF OccursIn(Haiku, RequestedName) THEN "haiku"
         ELSE "sonnet"

C19_Witness ==
  /\ input.model = Str(Haiku \o Opus)
  /\ output.model = "opus"

\* The messages of the request, none when the body has no list.
RequestedMessages ==
  IF input.messages = Absent THEN <<>> ELSE input.messages.items

\* The first n messages as the claim renders them, each after the ones
\* before it and a blank line.
RECURSIVE RenderedUpTo(_)
RenderedUpTo(n) ==
  IF n = 0 THEN <<>>
  ELSE RenderedUpTo(n - 1)
         \o (IF n = 1 THEN <<>> ELSE <<"\n\n">>)
         \o <<IF RequestedMessages[n].role = "assistant"
                THEN "Assistant" ELSE "Human",
              ": ">>
         \o ContentText(RequestedMessages[n].content)

\* C20: prompt rendering - the prompt is the messages in their order, each
\* as "Assistant: <content>" for role assistant and "Human: <content>" for
\* any other role, joined by a blank line, after the system text and a blank
\* line exactly when the system text is not empty.
C20_PromptRendering ==
  output # NoOutput =>
    output.prompt =
      (IF SystemContext(input.system) # <<>>
         THEN SystemContext(input.system) \o <<"\n\n">>
         ELSE <<>>)
        \o RenderedUpTo(Len(RequestedMessages))

C20_Witness ==
  /\ input.system = Str(<<"s">>)
  /\ input.messages # Absent
  /\ Len(RequestedMessages) = 2
  /\ RequestedMessages[1].role = "assistant"
  /\ RequestedMessages[2].role = "system"
  /\ output.prompt =
       <<"s", "\n\n", "Assistant", ": ", "x", "\n\n", "Human", ": ", "y", "z">>


\* ------------------------------------------------ claims C21 to C28
\* C21: Starting - the first two writes to the sink are the message_start and
\* the content_block_start (text, index 0) the session makes itself, written
\* before any upstream message is read.
C21_SyntheticPreamble ==
  \A r \in Req :
    stream[r].status # "none" =>
      /\ Len(stream[r].sink) >= 2
      /\ SubSeq(stream[r].sink, 1, 2) = Preamble

\* The names of the events of a sink, keepalive comments left out.
RECURSIVE EventNames(_)
EventNames(sink) ==
  IF sink = <<>> THEN <<>>
  ELSE IF Head(sink).kind = "ping" THEN EventNames(Tail(sink))
  ELSE <<Label(Head(sink))>> \o EventNames(Tail(sink))

\* The session ended with the client connected and without a failure.
NormalTurn(s) ==
  /\ s.status = "done"
  /\ s.sinkState = "closed"
  /\ ~s.closedSeen /\ s.brokenOn = {}
  /\ s.resultError = "none"
  /\ ErrorPositions(s.sink) = {}

InTurnOrder(names) ==
  /\ Len(names) >= 5
  /\ names[1] = "message_start"
  /\ names[2] = "content_block_start"
  /\ \A i \in 3..(Len(names) - 3) : names[i] = "content_block_delta"
  /\ names[Len(names) - 2] = "content_block_stop"
  /\ names[Len(names) - 1] = "message_delta"
  /\ names[Len(names)] = "message_stop"

\* C22: normal-turn emission order - a session that completed without a
\* failure, the client connected throughout, has written message_start, one
\* content_block_start, zero or more content_block_delta, content_block_stop,
\* message_delta and message_stop in this order, and then closed the sink.
C22_EmissionOrder ==
  \A r \in Req :
    NormalTurn(stream[r]) => InTurnOrder(EventNames(stream[r].sink))

\* The client was found gone: a write reported "already closed".
DetectedGone(s) == s.closedSeen \/ s.streamClosed

\* C23: Draining - when the client was found gone while the upstream sequence
\* was still being read, none of the three terminal events is handed to the
\* sink afterwards.
NoTerminalAfterGone ==
  \A r \in Req :
    (stream[r].status = "streaming" /\ DetectedGone(stream[r])) =>
      (stream'[r].lateAttempts \ stream[r].lateAttempts)
        \cap TerminalTypes = {}
C23_NoTerminalAfterGone == [][NoTerminalAfterGone]_vars

\* C24: guarded write - once the client was found gone, no step of the
\* session hands anything to the sink, and the sink, bytesSent and the
\* forwarded counters stay as they are.
GuardedWrite ==
  \A r \in Req :
    DetectedGone(stream[r]) =>
      /\ stream'[r].lateAttempts = stream[r].lateAttempts
      /\ stream'[r].sink = stream[r].sink
      /\ stream'[r].bytesSent = stream[r].bytesSent
      /\ stream'[r].eventsForwarded = stream[r].eventsForwarded
      /\ stream'[r].textEventsForwarded = stream[r].textEventsForwarded
C24_GuardedWrite == [][GuardedWrite]_vars

\* C25: a failure of a content or keepalive write that is not "already
\* closed" is escalated - it does not mark the client gone, the loop has ended
\* and the error event was attempted on the sink.
C25_FailureEscalated ==
  \A r \in Req :
    stream[r].brokenOn \ {"error"} # {} =>
      /\ ~stream[r].streamClosed
      /\ stream[r].status # "streaming"
      /\ "error" \in stream[r].lateAttempts

\* C26: keepalive cancellation - once a write has reported the sink closed or
\* broken the timer is cancelled and no keepalive is attempted after the
\* report; no timer is left once the session is past the loop.
C26_KeepaliveCancelled ==
  \A r \in Req :
    /\ (stream[r].closedSeen \/ stream[r].brokenOn # {}) => ~stream[r].heartbeat
    /\ "ping" \notin stream[r].lateAttempts
    /\ stream[r].status \in {"done", "escaped"} => ~stream[r].heartbeat

Pings(sink) == {i \in 1..Len(sink) : sink[i].kind = "ping"}

\* C27: a session configured with a keepalive interval that is not positive
\* has no timer and never ticks or writes a keepalive comment; one configured
\* with a positive interval has its timer while it streams and no write has
\* failed.
C27_KeepaliveInterval ==
  \A r \in Req :
    stream[r].status # "none" =>
      /\ stream[r].sseHeartbeatMs <= 0 =>
           /\ ~stream[r].heartbeat
           /\ stream[r].heartbeatCount = 0
           /\ Pings(stream[r].sink) = {}
      /\ ( /\ stream[r].sseHeartbeatMs > 0
           /\ stream[r].status = "streaming"
           /\ ~stream[r].closedSeen /\ stream[r].brokenOn = {} )
         => stream[r].heartbeat

C27_Witness ==
  \E r \in Req :
    /\ stream[r].sseHeartbeatMs = 0
    /\ stream[r].status = "done"
    /\ Len(stream[r].up) >= 2
    /\ Len(stream[r].sink) > Len(Preamble)

\* The upstream message m carries text the revision forwards as a delta.
IsTextEvent(v, m) ==
  IF v = "C" THEN m.msg = "assistant" /\ \E i \in 1..Len(m.blocks) : m.blocks[i] = "text"
  ELSE m.msg = "stream_event" /\ m.type = "content_block_delta"

\* C28: no synthetic filler - every content_block_delta in the sink was made
\* from a text event of the session's own upstream sequence.
C28_NoSyntheticDelta ==
  \A r \in Req :
    \A i \in EventPositions(stream[r].sink) :
      stream[r].sink[i].ev.type = "content_block_delta" =>
        /\ stream[r].sink[i].n \in 1..Len(stream[r].up)
        /\ IsTextEvent(ver, stream[r].up[stream[r].sink[i].n])


\* ------------------------------------------------ claims C29 and C30
\* What a session that has read the upstream sequence up is, had it run alone
\* with its client connected and no timer tick.
RECURSIVE Replay(_, _)
Replay(v, up) ==
  IF up = <<>> THEN StartStream
  ELSE OnMessage(v, Replay(v, SubSeq(up, 1, Len(up) - 1)), up[Len(up)])

MalformedAnswered(r) ==
  pc[r] = "parsing" /\ response[r] = "none" /\ response'[r] = "error500"

\* C30: malformed input - when parsing the body (or reaching into it) throws,
\* the answer is HTTP 500 with the envelope type error / api_error, no
\* upstream session was started for the request, and the job settles: the
\* slot is released or handed to the next waiting job.
C30_MalformedInput ==
  [][\A r \in Req :
       MalformedAnswered(r) =>
         /\ body'[r].status = 500
         /\ body'[r].type = "api_error"
         /\ body'[r].message = ErrorMessage(ParseError)
         /\ stream'[r] = NoStream
         /\ seen'[r] = 0 /\ fullContent'[r] = <<>>
         /\ pc'[r] = "responded"
         /\ IF queue = <<>> THEN pending' = pending - 1
            ELSE pending' = pending /\ pc'[Head(queue)] = "parsing"]_vars

C30_Witness ==
  \E r \in Req :
    /\ pc[r] = "responded"
    /\ response[r] = "error500"
    /\ body[r].message = ErrorMessage(ParseError)
    /\ \E i \in 1..(Len(starts) - 1) :
         starts[i] = r /\ starts[i + 1] \in waited


\* ------------------------------------------------ claims C31 to C39
\* Every write of the session so far has succeeded.
NoWriteFailed(s) == ~s.closedSeen /\ s.brokenOn = {}

C32_SlotHeldWhileAggregating ==
  [][\A r \in Req :
       pc[r] = "aggregating" =>
         /\ \A q \in Req \ {r} : pc[q] \notin {"parsing", "aggregating"}
         /\ starts' # starts => pc'[r] = "responded"]_vars

C32_Witness ==
  \E r \in Req :
    /\ pc[r] = "responded" /\ seen[r] >= 1
    /\ r + 1 \in waited
    /\ Started(r + 1)


\* The session is over: start() has returned or thrown.
SessionOver(s) == s.status \in {"done", "escaped"}

\* The sink was closed by the session or is known to be closed by the client.
SinkSettled(s) == s.sinkState = "closed" \/ s.closedSeen \/ s.streamClosed

StreamEvents(up) == {n \in 1..Len(up) : up[n].msg = "stream_event"}

\* C34: once the session has marked the client gone (streamClosed), it hands
\* nothing more to the sink, forwards no further event, and leaves the loop
\* at the next upstream message it reads.
C34_LeavesLoopWhenGone ==
  [][\A r \in Req :
       (stream[r].streamClosed /\ stream[r].status = "streaming") =>
         /\ stream'[r].sink = stream[r].sink
         /\ stream'[r].lateAttempts = stream[r].lateAttempts
         /\ stream'[r].eventsForwarded = stream[r].eventsForwarded
         /\ Len(stream'[r].up) > Len(stream[r].up) =>
              stream'[r].status # "streaming"]_vars

C34_Witness ==
  \E r \in Req :
    /\ stream[r].streamClosed /\ stream[r].closedSeen
    /\ stream[r].status = "done"
    /\ stream[r].heartbeatCount >= 1
    /\ stream[r].eventsForwarded >= 1
    /\ Cardinality(StreamEvents(stream[r].up)) > stream[r].streamEventsSeen


\* The upstream sequence of session r ends normally while the client has gone
\* and no write has found that out yet.
EndsWithClientGone(r) ==
  /\ StreamEnd(r)
  /\ stream[r].sinkState = "gone"
  /\ NoWriteFailed(stream[r]) /\ ~stream[r].streamClosed

QuietEnd ==
  \A r \in Req :
    EndsWithClientGone(r) =>
      /\ stream'[r].status = "done"
      /\ stream'[r].streamClosed
      /\ ~stream'[r].closedSeen
      /\ stream'[r].sink = stream[r].sink

\* C35: when the client has gone unnoticed and the session's own close of the
\* sink fails with "already closed" after a normal end of the upstream, the
\* session ends quietly - it marks itself closed, hands no error event (nor
\* anything else) to the sink and no exception leaves start().
C35_QuietWhenCloseFails == [][QuietEnd]_vars


\* C36: at most one error event is written to the sink of a session,
\* whatever the upstream and the sink do.
C36_OneErrorEvent ==
  \A r \in Req : Cardinality(ErrorPositions(stream[r].sink)) <= 1

\* A session that wrote its error event and closed the sink.
C36_Witness ==
  \E r \in Req :
    /\ Cardinality(ErrorPositions(stream[r].sink)) = 1
    /\ SessionOver(stream[r])
    /\ Len(stream[r].up) >= 1
    /\ stream[r].sinkState = "closed"


\* C37: the session never calls close on a sink it has itself closed: on
\* every path a close that succeeded is the last one.
C37_NoCloseAfterClose ==
  \A r \in Req :
    /\ ~stream[r].closedAgain
    /\ stream[r].sinkState = "closed" => SessionOver(stream[r])

\* A session whose first close failed and whose catch closed again.
C37_Witness ==
  \E r \in Req :
    /\ stream[r].status = "escaped"
    /\ stream[r].sinkState = "gone"
    /\ stream[r].errorAfterClosed
    /\ ~stream[r].heartbeat


\* C38: one process-wide queue - a request whose job body is running came in
\* after every request still waiting and no other body runs beside it,
\* whichever path and whichever server instance each of them came in on; the
\* bodies start in arrival order.
C38_OneSharedQueue ==
  /\ \A r, q \in Req :
       (r < q /\ pc[q] \in {"parsing", "aggregating"}) => pc[r] = "responded"
  /\ \A i \in 1..Len(queue) : \A q \in Req :
       pc[q] \in {"parsing", "aggregating"} => q < queue[i]
  /\ \A i, j \in 1..Len(starts) : i < j => starts[i] < starts[j]

C38_Witness ==
  \E r, q \in Req :
    /\ r < q
    /\ route[r].path # route[q].path
    /\ route[r].instance # route[q].instance
    /\ pc[r] = "aggregating"
    /\ pc[q] = "queued"


\* The bytes of the items of a sink.
RECURSIVE SumBytes(_)
SumBytes(sink) ==
  IF sink = <<>> THEN 0 ELSE PayloadBytes(Head(sink)) + SumBytes(Tail(sink))

TextPositions(sink) ==
  {i \in EventPositions(sink) :
     sink[i].ev.type = "content_block_delta" /\ sink[i].ev.delta = "text_delta"}

CountersConsistent(s) ==
  /\ s.textEventsForwarded <= s.eventsForwarded
  /\ s.eventsForwarded <= s.streamEventsSeen
  /\ s.streamEventsSeen <= Cardinality(StreamEvents(s.up))
  /\ s.eventsForwarded = Cardinality(EventPositions(s.sink))
  /\ s.textEventsForwarded = Cardinality(TextPositions(s.sink))
  /\ s.bytesSent = SumBytes(s.sink)

CountersGrow ==
  \A r \in Req :
    /\ stream'[r].streamEventsSeen >= stream[r].streamEventsSeen
    /\ stream'[r].eventsForwarded >= stream[r].eventsForwarded
    /\ stream'[r].textEventsForwarded >= stream[r].textEventsForwarded
    /\ stream'[r].bytesSent >= stream[r].bytesSent

\* C39: the counters of a revision B session are consistent in every state -
\* textEventsForwarded <= eventsForwarded <= streamEventsSeen, eventsForwarded
\* counts the events written to the sink, bytesSent is the size of what was
\* written (events, keepalives and the error event) - and no counter ever
\* decreases.
C39_CountersConsistent ==
  /\ [](ver = "B" => \A r \in Req : CountersConsistent(stream[r]))
  /\ [][CountersGrow]_vars

C39_Witness ==
  \E r \in Req :
    /\ ver = "B"
    /\ stream[r].textEventsForwarded >= 1
    /\ stream[r].eventsForwarded > stream[r].textEventsForwarded
    /\ stream[r].streamEventsSeen > stream[r].eventsForwarded
    /\ stream[r].closedSeen

====
